---- MODULE Spec2Model ----
(***************************************************************************)
(* A model of the seismic-dataset service: the directory scanner and the   *)
(* windowed loader (app/core/data_loader.py), the metadata indexer with    *)
(* its worker pool and the relational store (app/core/database.py), the   *)
(* processing dispatcher (app/core/processing.py) and the HTTP handlers    *)
(* (app/api/routes.py).                                                     *)
(*                                                                         *)
(* Times are integer ticks of half a second.  A directory is the sequence  *)
(* os.listdir returns; the entry at position i has the file name i.  It is *)
(* data/<dataset> for the scanner, the indexer and the handlers, and       *)
(* data/<dataset>/data for load_data.  Files do not change on disk.        *)
(* Python's None is the empty tuple <<>> and a present value v is <<v>>.    *)
(* A scanner, loader, dispatcher or handler call runs in one thread and is *)
(* one step; generate_metadata, with its pool, is a step per statement.    *)
(***************************************************************************)
EXTENDS Integers, Sequences, FiniteSets, Bags, TLC

VARIABLES
    exists,     \* whether the directory the operation lists exists
    listing,    \* that directory as os.listdir returns it: a sequence of entries
    call,       \* the operation last called, with its arguments
    result,     \* what that call returned or raised
    pc,         \* generate_metadata: where the calling thread is
    nsub,       \* generate_metadata: how many files have been submitted
    futures,    \* the pool's futures, by file name: state and result
    consumed,   \* the futures as_completed has yielded
    cur,        \* the future whose metadata is being inserted, and the next item
    conns,      \* the threads holding an open store connection
    store,      \* the files table: a bag of rows
    insertFailed, \* whether an insert has raised
    passes      \* how many times generate_metadata has been called

dirVars == <<exists, listing>>
callVars == <<call, result>>
indexVars == <<pc, nsub, futures, consumed, cur, conns, store, insertFailed, passes>>
vars == <<exists, listing, call, result,
          pc, nsub, futures, consumed, cur, conns, store, insertFailed, passes>>

----------------------------------------------------------------------------
(* Bounds of the model. *)

\* The entries a directory lists, at most.
MaxFiles == 2
\* The traces a file holds, at most.
MaxTraces == 2
\* The samples of a trace passed to the dispatcher, at most.
MaxSamples == 2
\* The largest window_size passed to moving_average.
MaxWindow == 3

\* The instants a trace may start or end at, and a window may name.
Times == {0, 1}

\* What obspy.read raises on a file it cannot parse.
ReadErrors == {"TypeError", "ValueError"}

SeqsUpTo(S, n) == UNION {[1..k -> S] : k \in 0..n}

Traces == {t \in [starttime : Times, endtime : Times, sampling_rate : {1}] :
              t.starttime <= t.endtime}

\* A directory entry: a readable .mseed file with its traces, an unreadable
\* .mseed file with the error its read raises, or an entry of another name.
ReadableFiles == {[mseed |-> TRUE, err |-> "none", traces |-> ts] :
                     ts \in SeqsUpTo(Traces, MaxTraces)}
UnreadableFiles == {[mseed |-> TRUE, err |-> e, traces |-> <<>>] : e \in ReadErrors}
OtherEntries == {[mseed |-> FALSE, err |-> "none", traces |-> <<>>]}
Entries == ReadableFiles \cup UnreadableFiles \cup OtherEntries

Listings == SeqsUpTo(Entries, MaxFiles)

None == <<>>
Some(v) == <<v>>

Return(v) == [kind |-> "return", value |-> v]
Raise(e) == [kind |-> "raise", exc |-> e]

NoCall == [op |-> "none"]
NoResult == [kind |-> "none"]

----------------------------------------------------------------------------
(* data_loader.get_time_range *)

\* One iteration of the loop over os.listdir: st = read(file), then the
\* running minimum and maximum are updated from st[0] alone.
\* get_time_range with the read wrapped in a try that skips the file.
RECURSIVE TimeRangeLoopSkipping(_, _, _, _)
TimeRangeLoopSkipping(files, i, start_time, end_time) ==
    IF i > Len(files) THEN Return(<<start_time, end_time>>)
    ELSE LET f == files[i] IN
         IF ~f.mseed \/ f.err # "none" \/ Len(f.traces) = 0
         THEN TimeRangeLoopSkipping(files, i + 1, start_time, end_time)
         ELSE LET st0 == f.traces[1]
                  s == IF start_time = None \/ st0.starttime < start_time[1]
                       THEN Some(st0.starttime) ELSE start_time
                  e == IF end_time = None \/ st0.endtime > end_time[1]
                       THEN Some(st0.endtime) ELSE end_time
              IN TimeRangeLoopSkipping(files, i + 1, s, e)

RECURSIVE TimeRangeLoop(_, _, _, _)
TimeRangeLoop(files, i, start_time, end_time) ==
    IF i > Len(files) THEN Return(<<start_time, end_time>>)
    ELSE LET f == files[i] IN
         IF ~f.mseed THEN TimeRangeLoop(files, i + 1, start_time, end_time)
         ELSE IF f.err # "none" THEN Raise(f.err)
         ELSE IF Len(f.traces) = 0 THEN Raise("IndexError")
         ELSE LET st0 == f.traces[1]
                  s == IF start_time = None \/ st0.starttime < start_time[1]
                       THEN Some(st0.starttime) ELSE start_time
                  e == IF end_time = None \/ st0.endtime > end_time[1]
                       THEN Some(st0.endtime) ELSE end_time
              IN TimeRangeLoop(files, i + 1, s, e)

get_time_range(files) == TimeRangeLoop(files, 1, None, None)

\* os.listdir raises when the dataset directory is missing.
GetTimeRange ==
    /\ call' = [op |-> "get_time_range"]
    /\ result' = IF exists THEN get_time_range(listing) ELSE Raise("FileNotFoundError")
    /\ UNCHANGED <<dirVars, indexVars>>

----------------------------------------------------------------------------
(* data_loader.get_dataset_files *)

Min(S) == CHOOSE x \in S : \A y \in S : x <= y
Max(S) == CHOOSE x \in S : \A y \in S : x >= y

\* sorted(..., key=start_time): a stable insertion of x into a sorted list.
RECURSIVE InsertByStart(_, _)
InsertByStart(sorted, x) ==
    IF sorted = <<>> THEN <<x>>
    ELSE IF x.start_time < Head(sorted).start_time THEN <<x>> \o sorted
    ELSE <<Head(sorted)>> \o InsertByStart(Tail(sorted), x)

RECURSIVE SortedByStart(_)
SortedByStart(s) ==
    IF s = <<>> THEN <<>>
    ELSE InsertByStart(SortedByStart(SubSeq(s, 1, Len(s) - 1)), s[Len(s)])

\* The body of the loop: the try block reads the file and appends its entry;
\* the except clause logs and leaves files_info as it was.
FileInfoStep(files_info, f, name) ==
    IF ~f.mseed THEN files_info
    ELSE IF f.err # "none" THEN files_info
    ELSE IF Len(f.traces) = 0 THEN files_info   \* min() of nothing: ValueError, caught
    ELSE Append(files_info,
                [filename |-> name,
                 start_time |-> Min({f.traces[k].starttime : k \in 1..Len(f.traces)}),
                 end_time |-> Max({f.traces[k].endtime : k \in 1..Len(f.traces)})])

RECURSIVE FilesInfoLoop(_, _, _)
FilesInfoLoop(files, i, files_info) ==
    IF i > Len(files) THEN files_info
    ELSE FilesInfoLoop(files, i + 1, FileInfoStep(files_info, files[i], i))

get_dataset_files(files) == Return(SortedByStart(FilesInfoLoop(files, 1, <<>>)))

GetDatasetFiles ==
    /\ call' = [op |-> "get_dataset_files"]
    /\ result' = IF exists THEN get_dataset_files(listing) ELSE Raise("FileNotFoundError")
    /\ UNCHANGED <<dirVars, indexVars>>

----------------------------------------------------------------------------
(* data_loader.load_data *)

\* The overlap test with strict comparisons.
OverlapsStrict(tr, start_time, end_time) ==
    tr.starttime < end_time /\ tr.endtime > start_time

Overlaps(tr, start_time, end_time) ==
    tr.starttime <= end_time /\ tr.endtime >= start_time

RECURSIVE AddOverlapping(_, _, _, _, _)
AddOverlapping(st, file_st, k, start_time, end_time) ==
    IF k > Len(file_st) THEN st
    ELSE AddOverlapping(
             IF Overlaps(file_st[k], start_time, end_time)
             THEN Append(st, file_st[k]) ELSE st,
             file_st, k + 1, start_time, end_time)

\* The loop body with an except clause that also empties the accumulator.
LoadFileDiscarding(st, f, start_time, end_time) ==
    IF ~f.mseed THEN st
    ELSE IF f.err # "none" THEN <<>>
    ELSE AddOverlapping(st, f.traces, 1, start_time, end_time)

\* The body of the loop over the directory: a read that raises is logged by
\* the except clause and the accumulator st is left as it was.
LoadFile(st, f, start_time, end_time) ==
    IF ~f.mseed THEN st
    ELSE IF f.err # "none" THEN st
    ELSE AddOverlapping(st, f.traces, 1, start_time, end_time)

RECURSIVE LoadLoop(_, _, _, _, _)
LoadLoop(files, i, st, start_time, end_time) ==
    IF i > Len(files) THEN st
    ELSE LoadLoop(files, i + 1, LoadFile(st, files[i], start_time, end_time),
                  start_time, end_time)

load_data(files, start_time, end_time) ==
    LET st == LoadLoop(files, 1, <<>>, start_time, end_time)
    IN IF Len(st) = 0 THEN Return(None) ELSE Return(Some(st))

LoadData ==
    \E s \in Times, e \in Times :
        /\ call' = [op |-> "load_data", start_time |-> s, end_time |-> e]
        /\ result' = IF exists THEN load_data(listing, s, e)
                      ELSE Raise("FileNotFoundError")
        /\ UNCHANGED <<dirVars, indexVars>>

----------------------------------------------------------------------------
(* The scanner and the loader over every directory of the bounds. *)

IndexIdle ==
    /\ pc = "idle"
    /\ nsub = 0
    /\ futures = <<>>
    /\ consumed = {}
    /\ cur = None
    /\ conns = {}
    /\ store = EmptyBag
    /\ insertFailed = FALSE
    /\ passes = 0

InitDir ==
    /\ exists \in BOOLEAN
    /\ listing \in (IF exists THEN Listings ELSE {<<>>})
    /\ call = NoCall
    /\ result = NoResult
    /\ IndexIdle

NextScan == GetTimeRange \/ GetDatasetFiles
SpecScan == InitDir /\ [][NextScan]_vars

NextLoad == LoadData
SpecLoad == InitDir /\ [][NextLoad]_vars

----------------------------------------------------------------------------
(* database.insert_file_metadata and data_loader.generate_metadata *)

DatasetName == "ds"

\* datetime.isoformat(): the seconds, and the microseconds when there are any.
isoformat(t) ==
    IF t % 2 = 0 THEN <<t \div 2>> ELSE <<t \div 2, 500000>>

\* process_file that looks at st[0] alone, as get_time_range does.
process_file_first_trace(f, name) ==
    IF f.err # "none" \/ Len(f.traces) = 0 THEN <<>>
    ELSE <<[dataset |-> DatasetName, filename |-> name,
            start_time |-> f.traces[1].starttime,
            end_time |-> f.traces[1].endtime,
            sampling_rate |-> f.traces[1].sampling_rate]>>

\* process_file: one metadata item per trace, or [] when the read raises.
process_file(f, name) ==
    IF f.err # "none" THEN <<>>
    ELSE [k \in 1..Len(f.traces) |->
             [dataset |-> DatasetName, filename |-> name,
              start_time |-> f.traces[k].starttime,
              end_time |-> f.traces[k].endtime,
              sampling_rate |-> f.traces[k].sampling_rate]]

\* The row INSERT writes for a metadata item.
Row(item) ==
    [dataset |-> item.dataset, filename |-> item.filename,
     start_time |-> isoformat(item.start_time),
     end_time |-> isoformat(item.end_time),
     sampling_rate |-> item.sampling_rate]

\* files = [f for f in os.listdir(data_path) if f.endswith('.mseed')]
RECURSIVE MseedNames(_, _)
MseedNames(files, i) ==
    IF i > Len(files) THEN <<>>
    ELSE (IF files[i].mseed THEN <<i>> ELSE <<>>) \o MseedNames(files, i + 1)

files == MseedNames(listing, 1)

\* generate_metadata up to the pool: init_db, the path check, the listing.
GenerateMetadata ==
    /\ pc = "idle"
    /\ call' = [op |-> "generate_metadata"]
    /\ IF ~exists
       THEN pc' = "done" /\ result' = Raise("FileNotFoundError")
       ELSE IF Len(files) = 0
       THEN pc' = "done" /\ result' = Return(None)
       ELSE pc' = "submit" /\ result' = NoResult
    /\ passes' = passes + 1
    /\ UNCHANGED <<dirVars, nsub, futures, consumed, cur, conns, store, insertFailed>>

\* executor.submit(process_file, path, dataset) for the next file.
Submit ==
    /\ pc = "submit"
    /\ nsub < Len(files)
    /\ nsub' = nsub + 1
    /\ futures' = [n \in DOMAIN futures \cup {files[nsub + 1]} |->
                     IF n \in DOMAIN futures THEN futures[n]
                     ELSE [state |-> "pending", result |-> <<>>]]
    /\ UNCHANGED <<dirVars, callVars, pc, consumed, cur, conns, store, insertFailed, passes>>

\* The dict comprehension is complete: the as_completed loop begins.
AllSubmitted ==
    /\ pc = "submit"
    /\ nsub = Len(files)
    /\ pc' = "collect"
    /\ UNCHANGED <<dirVars, callVars, nsub, futures, consumed, cur, conns, store,
                   insertFailed, passes>>

\* A worker that runs process_file and inserts the rows itself.
WorkerFinishInserting(n) ==
    /\ n \in DOMAIN futures
    /\ futures[n].state = "pending"
    /\ futures' = [futures EXCEPT ![n] = [state |-> "finished", result |-> <<>>]]
    /\ store' = store (+) SetToBag({Row(process_file(listing[n], n)[k]) :
                                       k \in 1..Len(process_file(listing[n], n))})
    /\ UNCHANGED <<dirVars, callVars, pc, nsub, consumed, cur, conns, insertFailed, passes>>

\* A pool thread runs the task of file n: process_file reads the file and
\* builds its items, all local to the thread, and the future holds the result.
WorkerFinish(n) ==
    /\ n \in DOMAIN futures
    /\ futures[n].state = "pending"
    /\ futures' = [futures EXCEPT ![n] = [state |-> "finished",
                                          result |-> process_file(listing[n], n)]]
    /\ UNCHANGED <<dirVars, callVars, pc, nsub, consumed, cur, conns, store,
                   insertFailed, passes>>

\* as_completed has yielded every future.
LoopDone == consumed = DOMAIN futures

\* as_completed yields a finished future: metadata = future.result().
Collect ==
    /\ pc = "collect"
    /\ \E n \in DOMAIN futures \ consumed :
          /\ futures[n].state = "finished"
          /\ consumed' = consumed \cup {n}
          /\ cur' = Some([file |-> n, next |-> 1])
    /\ pc' = "insert"
    /\ UNCHANGED <<dirVars, callVars, nsub, futures, conns, store, insertFailed, passes>>

\* insert_file_metadata: connect and execute the INSERT ...
InsertExecute ==
    /\ pc = "insert"
    /\ cur[1].next <= Len(futures[cur[1].file].result)
    /\ conns' = conns \cup {"main"}
    /\ pc' = "commit"
    /\ UNCHANGED <<dirVars, callVars, nsub, futures, consumed, cur, store, insertFailed, passes>>

\* A commit that replaced a row already in the table instead of adding one.
InsertCommitUpsert ==
    /\ pc = "commit"
    /\ store' = SetToBag(BagToSet(store)
                         \cup {Row(futures[cur[1].file].result[cur[1].next])})
    /\ conns' = conns \ {"main"}
    /\ cur' = Some([cur[1] EXCEPT !.next = @ + 1])
    /\ pc' = "insert"
    /\ UNCHANGED <<dirVars, callVars, nsub, futures, consumed, insertFailed, passes>>

\* ... then commit and close: the row is in the table.
InsertCommit ==
    /\ pc = "commit"
    /\ store' = store (+) SetToBag({Row(futures[cur[1].file].result[cur[1].next])})
    /\ conns' = conns \ {"main"}
    /\ cur' = Some([cur[1] EXCEPT !.next = @ + 1])
    /\ pc' = "insert"
    /\ UNCHANGED <<dirVars, callVars, nsub, futures, consumed, insertFailed, passes>>

\* The store raises in execute or commit: the except clause logs, and the
\* rest of this file's items are not inserted.
InsertRaises ==
    /\ pc = "commit"
    /\ conns' = conns \ {"main"}
    /\ insertFailed' = TRUE
    /\ cur' = None
    /\ pc' = "collect"
    /\ UNCHANGED <<dirVars, callVars, nsub, futures, consumed, store, passes>>

\* The items of this future are all inserted: back to as_completed.
FileInserted ==
    /\ pc = "insert"
    /\ cur[1].next > Len(futures[cur[1].file].result)
    /\ cur' = None
    /\ pc' = "collect"
    /\ UNCHANGED <<dirVars, callVars, nsub, futures, consumed, conns, store, insertFailed, passes>>

\* as_completed is exhausted; the with block shuts the pool down and the
\* function returns.
Finish ==
    /\ pc = "collect"
    /\ LoopDone
    /\ pc' = "done"
    /\ result' = Return(None)
    /\ UNCHANGED <<dirVars, call, nsub, futures, consumed, cur, conns, store, insertFailed, passes>>

\* The directories the indexer is run over: process_file treats every error
\* of a read alike, so one kind of unreadable file stands for all.
IndexTraces == {t \in Traces : t.starttime = 0}
IndexEntries ==
    {[mseed |-> TRUE, err |-> "none", traces |-> ts] : ts \in SeqsUpTo(IndexTraces, MaxTraces)}
    \cup {f \in UnreadableFiles : f.err = "TypeError"} \cup OtherEntries

InitIndex ==
    /\ exists \in BOOLEAN
    /\ listing \in (IF exists THEN SeqsUpTo(IndexEntries, MaxFiles) ELSE {<<>>})
    /\ call = NoCall
    /\ result = NoResult
    /\ IndexIdle

NextIndex ==
    \/ GenerateMetadata
    \/ Submit
    \/ AllSubmitted
    \/ \E n \in 1..MaxFiles : WorkerFinish(n)
    \/ Collect
    \/ InsertExecute
    \/ InsertCommit
    \/ InsertRaises
    \/ FileInserted
    \/ Finish

SpecIndex == InitIndex /\ [][NextIndex]_vars

----------------------------------------------------------------------------
(* database.get_dataset_timerange, and generate_metadata called again *)

\* How many times generate_metadata is called over one directory.
MaxPasses == 2

\* The order of SQLite's MIN and MAX over a TEXT column: byte by byte, a
\* text that is a prefix of another first.  The seconds are zero-padded.
TextLeq(a, b) ==
    \/ a[1] < b[1]
    \/ a[1] = b[1] /\ (Len(a) = 1 \/ (Len(b) = 2 /\ a[2] <= b[2]))

TextMin(S) == CHOOSE x \in S : \A y \in S : TextLeq(x, y)
TextMax(S) == CHOOSE x \in S : \A y \in S : TextLeq(y, x)

\* datetime.fromisoformat: the time a text of isoformat's shape stands for.
fromisoformat(text) ==
    2 * text[1] + (IF Len(text) = 2 /\ text[2] = 500000 THEN 1 ELSE 0)

\* get_dataset_timerange: MIN(start_time) and MAX(end_time) of the rows of
\* the dataset, parsed, or (None, None) when the dataset has no row.
get_dataset_timerange(table, dataset) ==
    LET rows == {r \in BagToSet(table) : r.dataset = dataset}
    IN  IF rows = {} THEN <<None, None>>
        ELSE <<Some(fromisoformat(TextMin({r.start_time : r \in rows}))),
               Some(fromisoformat(TextMax({r.end_time : r \in rows})))>>

GetDatasetTimerange ==
    /\ pc \in {"idle", "done"}
    /\ call' = [op |-> "get_dataset_timerange"]
    /\ result' = Return(get_dataset_timerange(store, DatasetName))
    /\ UNCHANGED <<dirVars, indexVars>>

\* generate_metadata called after an earlier call has returned: init_db
\* keeps the table (CREATE TABLE IF NOT EXISTS), the directory is listed
\* again and a new executor is filled.
GenerateMetadataAgain ==
    /\ pc = "done"
    /\ passes < MaxPasses
    /\ call' = [op |-> "generate_metadata"]
    /\ IF ~exists
       THEN pc' = "done" /\ result' = Raise("FileNotFoundError")
       ELSE IF Len(files) = 0
       THEN pc' = "done" /\ result' = Return(None)
       ELSE pc' = "submit" /\ result' = NoResult
    /\ passes' = passes + 1
    /\ nsub' = 0
    /\ futures' = <<>>
    /\ consumed' = {}
    /\ cur' = None
    /\ UNCHANGED <<dirVars, conns, store, insertFailed>>

\* The directories indexed more than once hold no file, one or two, and a
\* readable file of theirs no trace, one or two.
ReindexLens == {0, 1, 2}
ReindexEntries ==
    {[mseed |-> TRUE, err |-> "none", traces |-> ts] :
        ts \in UNION {[1..k -> Traces] : k \in ReindexLens}}
    \cup {f \in UnreadableFiles : f.err = "TypeError"} \cup OtherEntries

InitReindex ==
    /\ exists \in BOOLEAN
    /\ listing \in (IF exists
                    THEN UNION {[1..k -> ReindexEntries] : k \in ReindexLens}
                    ELSE {<<>>})
    /\ call = NoCall
    /\ result = NoResult
    /\ IndexIdle

NextReindex ==
    \/ GenerateMetadata
    \/ GenerateMetadataAgain
    \/ Submit
    \/ AllSubmitted
    \/ \E n \in 1..MaxFiles : WorkerFinish(n)
    \/ Collect
    \/ InsertExecute
    \/ InsertCommit
    \/ InsertRaises
    \/ FileInserted
    \/ Finish
    \/ GetDatasetTimerange

SpecReindex == InitReindex /\ [][NextReindex]_vars

----------------------------------------------------------------------------
(* processing.calculate_snr, process_data and detect_events *)

\* A stream is a sequence of traces and the denominator its samples are
\* over: the sample data[i] of a trace stands for data[i] / denom.
SampleVals == {-1, 0, 1}
ProcTraces == [data : SeqsUpTo(SampleVals, MaxSamples), starttime : {0},
               sampling_rate : {1}]
\* A stream passed to the dispatcher holds no trace, one, or two.
StreamLens == {0, 1, 2}
Streams == [traces : UNION {[1..k -> ProcTraces] : k \in StreamLens}, denom : {1}]

\* The data argument: a Stream, or None as load_data returns it.
DataArgs == {None} \cup {Some(d) : d \in Streams}

get_denoising_methods == {"bandpass", "lowpass", "highpass", "moving_average"}

\* The method names a caller may pass: the four, sta_lta, and an unknown one.
Methods == get_denoising_methods \cup {"wavelet", "sta_lta"}

ParamKeys == {"freqmin", "freqmax", "freq", "window_size"}
KeySets == {{}, {"freqmin"}, {"freqmin", "freqmax", "freq"}, {"window_size"}, ParamKeys}
Parameters ==
    {[k \in K |-> IF k = "window_size" THEN w ELSE 1] : K \in KeySets, w \in 0..MaxWindow}

RECURSIVE Sum(_)
Sum(q) == IF q = <<>> THEN 0 ELSE Head(q) + Sum(Tail(q))

Abs(x) == IF x < 0 THEN -x ELSE x

\* np.concatenate([tr.data for tr in data])
RECURSIVE Concatenate(_)
Concatenate(traces) ==
    IF traces = <<>> THEN <<>> ELSE Head(traces).data \o Concatenate(Tail(traces))

\* Floats: a / sqrt(v) with v > 0, or the IEEE values inf and nan.
Num(a, v) == [tag |-> "num", a |-> a, v |-> v]
Zero == Num(0, 1)
Inf == [tag |-> "inf"]
NaN == [tag |-> "nan"]

FloatEq(x, y) ==
    /\ x.tag = y.tag
    /\ x.tag # "nan"
    /\ x.tag = "num" => x.a * x.a * y.v = y.a * y.a * x.v


\* np.mean(np.abs(signal)) / np.std(signal) for a signal of n > 0 samples:
\* (sumabs / n) / (sqrt(var) / n), which numpy divides as IEEE floats.
MeanAbsOverStd(signal) ==
    LET n == Len(signal)
        sumabs == Sum([i \in 1..n |-> Abs(signal[i])])
        sum == Sum(signal)
        sumsq == Sum([i \in 1..n |-> signal[i] * signal[i]])
        var == n * sumsq - sum * sum
    IN IF var = 0 THEN (IF sumabs = 0 THEN NaN ELSE Inf) ELSE Num(sumabs, var)

calculate_snr(data) ==
    IF data = None \/ Len(data[1].traces) = 0 THEN Zero
    ELSE LET signal == Concatenate(data[1].traces)
         IN IF Len(signal) > 0 THEN MeanAbsOverStd(signal) ELSE Zero

\* np.convolve(a, v, 'full')[n], n from 0, for v = np.ones(w).
FullConvolveOnes(a, w, n) ==
    Sum([k \in 1..Len(a) |->
            IF n - (k - 1) >= 0 /\ n - (k - 1) <= w - 1 THEN a[k] ELSE 0])


\* np.convolve(a, np.ones(w), 'same'): the middle max(len(a), w) values of
\* the full convolution, after the first (min(len(a), w) - 1) // 2.
ConvolveSame(a, w) ==
    LET long == IF Len(a) < w THEN w ELSE Len(a)
        short == IF Len(a) < w THEN Len(a) ELSE w
        skip == (short - 1) \div 2
    IN [i \in 1..long |-> FullConvolveOnes(a, w, (i - 1) + skip)]

\* Lines 88-90: each trace convolved with np.ones(w), then divided by w.
moving_average(stream, w) ==
    [traces |-> [k \in 1..Len(stream.traces) |->
                    [stream.traces[k] EXCEPT !.data = ConvolveSame(@, w)]],
     denom |-> stream.denom * w]

\* obspy's Stream.filter, a linear filter that keeps each trace's length;
\* gain stands for what the library makes of the samples.
LibFilter(stream, gain) ==
    [traces |-> [k \in 1..Len(stream.traces) |->
                    [stream.traces[k] EXCEPT
                        !.data = [i \in 1..Len(@) |-> gain * @[i]]]],
     denom |-> stream.denom]
FilterGains == {0, 1}

\* (snr_after - snr_before) / snr_before * 100 if snr_before != 0 else 0
Improvement(snr_before, snr_after) ==
    IF snr_before.tag = "num" /\ snr_before.a = 0 THEN Zero
    ELSE IF snr_before.tag # "num" \/ snr_after.tag = "nan" THEN NaN
    ELSE IF snr_after.tag = "inf" THEN Inf
    ELSE [tag |-> "pct", after |-> snr_after, before |-> snr_before]

Metrics(snr_before, processed_data) ==
    [kind |-> "return",
     value |-> [snr_before |-> snr_before,
                snr_after |-> calculate_snr(Some(processed_data)),
                improvement |-> Improvement(snr_before,
                                            calculate_snr(Some(processed_data)))],
     processed_data |-> processed_data]

\* The first of the keys, in the order the code reads them, that is missing.
MissingKey(parameters, keys) == \E k \in keys : k \notin DOMAIN parameters

\* process_data without its else branch: processed_data is never bound.
process_data_no_else(data, method, parameters, gain) ==
    IF data = None \/ Len(data[1].traces) = 0 THEN Raise("ValueError")
    ELSE IF method \in {"bandpass", "lowpass", "highpass"}
    THEN Metrics(calculate_snr(data), LibFilter(data[1], gain))
    ELSE Raise("UnboundLocalError")

process_data(data, method, parameters, gain) ==
    IF data = None \/ Len(data[1].traces) = 0 THEN Raise("ValueError")
    ELSE LET snr_before == calculate_snr(data) IN
         IF method = "bandpass" THEN
             IF MissingKey(parameters, {"freqmin", "freqmax"}) THEN Raise("KeyError")
             ELSE Metrics(snr_before, LibFilter(data[1], gain))
         ELSE IF method \in {"lowpass", "highpass"} THEN
             IF MissingKey(parameters, {"freq"}) THEN Raise("KeyError")
             ELSE Metrics(snr_before, LibFilter(data[1], gain))
         ELSE IF method = "moving_average" THEN
             IF MissingKey(parameters, {"window_size"}) THEN Raise("KeyError")
             ELSE IF parameters["window_size"] = 0 THEN Raise("ValueError")
             ELSE IF \E k \in 1..Len(data[1].traces) : Len(data[1].traces[k].data) = 0
             THEN Raise("ValueError")
             ELSE Metrics(snr_before, moving_average(data[1], parameters["window_size"]))
         ELSE Raise("ValueError")

\* What obspy's recursive_sta_lta and trigger_onset find in a trace: no
\* trigger, or one pair of sample indices with the function's value there.
Triggers ==
    {<<>>} \cup {<<[on |-> on, off |-> off, cft |-> 4]>> :
                    on \in 0..(MaxSamples - 1), off \in 1..MaxSamples}

MaxAbs(q) == Max({Abs(q[i]) : i \in 1..Len(q)})

TraceEvents(tr, triggers) ==
    IF triggers = <<>> \/ triggers[1].on >= triggers[1].off
       \/ triggers[1].off > Len(tr.data)
    THEN <<>>
    ELSE <<[start_time |-> tr.starttime + triggers[1].on \div tr.sampling_rate,
            end_time |-> tr.starttime + triggers[1].off \div tr.sampling_rate,
            magnitude |-> MaxAbs(SubSeq(tr.data, triggers[1].on + 1, triggers[1].off)),
            confidence |-> triggers[1].cft]>>

RECURSIVE StreamEvents(_, _)
StreamEvents(traces, triggers) ==
    IF traces = <<>> THEN <<>>
    ELSE TraceEvents(Head(traces), triggers) \o StreamEvents(Tail(traces), triggers)

detect_events(data, method, parameters, triggers) ==
    IF method = "sta_lta"
    THEN IF data = None THEN Raise("TypeError")
         ELSE Return(StreamEvents(data[1].traces, triggers))
    ELSE Raise("ValueError")

\* The calls made: each operation with its arguments.
ProcCalls ==
    {[op |-> "calculate_snr", data |-> data] : data \in DataArgs}
    \cup {[op |-> "process_data", data |-> data, method |-> method,
           parameters |-> parameters] :
             data \in DataArgs, method \in Methods, parameters \in Parameters}
    \cup {[op |-> "detect_events", data |-> data, method |-> method,
           parameters |-> <<>>] : data \in DataArgs, method \in Methods}

CalculateSnr ==
    /\ call.op = "calculate_snr"
    /\ result = NoResult
    /\ result' = Return(calculate_snr(call.data))
    /\ UNCHANGED <<dirVars, call, indexVars>>

ProcessData ==
    /\ call.op = "process_data"
    /\ result = NoResult
    /\ \E gain \in FilterGains :
          result' = process_data(call.data, call.method, call.parameters, gain)
    /\ UNCHANGED <<dirVars, call, indexVars>>

DetectEvents ==
    /\ call.op = "detect_events"
    /\ result = NoResult
    /\ \E triggers \in Triggers :
          result' = detect_events(call.data, call.method, call.parameters, triggers)
    /\ UNCHANGED <<dirVars, call, indexVars>>

InitProc ==
    /\ exists = TRUE
    /\ listing = <<>>
    /\ call \in ProcCalls
    /\ result = NoResult
    /\ IndexIdle

NextProc == CalculateSnr \/ ProcessData \/ DetectEvents
SpecProc == InitProc /\ [][NextProc]_vars

----------------------------------------------------------------------------
(* processing.get_raw_data_from_files and the handlers of api/routes.py *)

\* str(UTCDateTime): the seconds and always the six digits of microseconds.
str_time(t) == <<t \div 2, (t % 2) * 500000>>

\* The detail of an HTTPException: a text, and the exception whose str(e)
\* is put into it, if any.
Detail(text, e) == [text |-> text, exc |-> e]

\* obspy.read on a directory entry: a file obspy cannot parse raises, and so
\* does an entry that is no waveform file at all.
ReadRaises(f) == f.err # "none" \/ ~f.mseed

get_raw_data_from_files(file) ==
    IF ~exists \/ file > Len(listing) THEN Raise("FileNotFoundError")
    ELSE IF ReadRaises(listing[file]) THEN Raise("ValueError")
    ELSE LET st == listing[file].traces IN
         IF Len(st) = 0 THEN Raise("ValueError")
         ELSE Return([metadata |-> [dataset |-> DatasetName, filename |-> file,
                                    start_time |-> str_time(st[1].starttime),
                                    end_time |-> str_time(st[1].endtime),
                                    sampling_rate |-> st[1].sampling_rate],
                      traces |-> st])

Response(status, body) == [kind |-> "response", status |-> status, body |-> body]

\* raise HTTPException(status_code, detail)
HTTPException(status_code, detail) == Response(status_code, [detail |-> detail])

\* An exception no handler catches: the framework answers 500 with a fixed text.
Unhandled == Response(500, [text |-> "Internal Server Error"])

\* GET /datasets/{dataset}/timerange
timerange ==
    LET r == IF exists THEN get_time_range(listing) ELSE Raise("FileNotFoundError")
    IN IF r.kind = "raise"
       THEN IF r.exc = "ValueError" THEN HTTPException(404, Detail("", Some(r.exc)))
            ELSE Unhandled
       ELSE IF r.value[1] = None \/ r.value[2] = None THEN Unhandled  \* None.isoformat()
       ELSE Response(200, [start_time |-> isoformat(r.value[1][1]),
                           end_time |-> isoformat(r.value[2][1])])

\* GET /{dataset}/{file}
get_mseed_data(file) ==
    LET r == get_raw_data_from_files(file)
    IN IF r.kind = "return" THEN Response(200, r.value)
       ELSE IF r.exc = "FileNotFoundError" THEN HTTPException(404, Detail("File not found", None))
       ELSE IF r.exc = "ValueError" THEN HTTPException(400, Detail("", Some(r.exc)))
       ELSE HTTPException(500, Detail("An unexpected error occurred", None))

\* GET /{dataset}/files
dataset_files ==
    LET r == IF exists THEN get_dataset_files(listing) ELSE Raise("FileNotFoundError")
    IN IF r.kind = "return" THEN Response(200, [files |-> r.value])
       ELSE HTTPException(500, Detail("Error getting files: ", Some(r.exc)))

\* The requests made: a handler with its path parameters.  A file name
\* beyond the listing is a name the directory does not hold.
HttpCalls ==
    {[op |-> "timerange"], [op |-> "dataset_files"]}
    \cup {[op |-> "get_mseed_data", file |-> n] : n \in 1..(MaxFiles + 1)}

Timerange ==
    /\ call.op = "timerange"
    /\ result = NoResult
    /\ result' = timerange
    /\ UNCHANGED <<dirVars, call, indexVars>>

GetMseedData ==
    /\ call.op = "get_mseed_data"
    /\ result = NoResult
    /\ result' = get_mseed_data(call.file)
    /\ UNCHANGED <<dirVars, call, indexVars>>

DatasetFiles ==
    /\ call.op = "dataset_files"
    /\ result = NoResult
    /\ result' = dataset_files
    /\ UNCHANGED <<dirVars, call, indexVars>>

InitHttp ==
    /\ exists \in BOOLEAN
    /\ listing \in (IF exists THEN Listings ELSE {<<>>})
    /\ call \in HttpCalls
    /\ result = NoResult
    /\ IndexIdle

NextHttp == Timerange \/ GetMseedData \/ DatasetFiles
SpecHttp == InitHttp /\ [][NextHttp]_vars

----------------------------------------------------------------------------
(* The routes of api.routes and main, and the router's dispatch *)

\* A path is the sequence of its segments: /ds/files is <<"ds", "files">>.
MaxSegments == 3
Segments == {"datasets", "timerange", "processing-methods", "files",
             "print-file-dates", DatasetName, "a.mseed"}
Paths == SeqsUpTo(Segments, MaxSegments)

\* A segment of a route's path is a literal or a parameter {name}.
Lit(s) == [kind |-> "literal", text |-> s]
Param(n) == [kind |-> "param", text |-> n]

\* The GET routes in the order they are registered: the decorators of
\* api.routes from top to bottom (the commented-out ones are not
\* registered), then the root route main adds after include_router.
Routes ==
    << [path |-> <<Lit("datasets")>>, endpoint |-> "datasets"],
       [path |-> <<Lit("datasets"), Param("dataset"), Lit("timerange")>>,
        endpoint |-> "timerange"],
       [path |-> <<Param("dataset"), Param("file")>>, endpoint |-> "get_mseed_data"],
       [path |-> <<Lit("processing-methods")>>, endpoint |-> "processing_methods"],
       [path |-> <<Param("dataset"), Lit("files")>>, endpoint |-> "dataset_files"],
       [path |-> <<Lit("print-file-dates"), Param("dataset")>>,
        endpoint |-> "print_file_dates_endpoint"],
       [path |-> <<>>, endpoint |-> "root"] >>

\* A route matches a path of as many segments as its own whose segments
\* equal its literals; a parameter takes any segment.
Matches(route, path) ==
    /\ Len(route.path) = Len(path)
    /\ \A i \in 1..Len(path) :
          route.path[i].kind = "literal" => route.path[i].text = path[i]

\* The parameters a matching route takes from the path.
PathParams(route, path) ==
    {<<route.path[i].text, path[i]>> :
        i \in {j \in 1..Len(path) : route.path[j].kind = "param"}}

\* The router tries the routes in order and takes the first that matches;
\* a path no route matches is answered 404.
Dispatch(path) ==
    LET matching == {i \in 1..Len(Routes) : Matches(Routes[i], path)}
    IN  IF matching = {} THEN Raise("NotFound")
        ELSE Return([endpoint |-> Routes[Min(matching)].endpoint,
                     path_params |-> PathParams(Routes[Min(matching)], path)])

Route ==
    /\ call.op = "GET"
    /\ result = NoResult
    /\ result' = Dispatch(call.path)
    /\ UNCHANGED <<dirVars, call, indexVars>>

InitRoute ==
    /\ exists = FALSE
    /\ listing = <<>>
    /\ call \in {[op |-> "GET", path |-> p] : p \in Paths}
    /\ result = NoResult
    /\ IndexIdle

NextRoute == Route
SpecRoute == InitRoute /\ [][NextRoute]_vars

----------------------------------------------------------------------------
(* Properties of the scanner and the loader. *)

IsReadable(f) == f.mseed /\ f.err = "none"
IsUnreadable(f) == f.mseed /\ f.err # "none"

\* The positions <<i, k>> of every trace of every readable .mseed file.
TracePositions ==
    {p \in (1..Len(listing)) \X (1..MaxTraces) :
        IsReadable(listing[p[1]]) /\ p[2] <= Len(listing[p[1]].traces)}
TraceAt(p) == listing[p[1]].traces[p[2]]

AllReadableNonEmpty ==
    /\ \E i \in 1..Len(listing) : listing[i].mseed
    /\ \A i \in 1..Len(listing) :
          listing[i].mseed => IsReadable(listing[i]) /\ Len(listing[i].traces) > 0

\* C1: over a dataset whose .mseed files are all readable and non-empty,
\* get_time_range returns the minimum start and the maximum end taken over
\* every trace of every file.
C1_TimeRangeOverEveryTrace ==
    (call.op = "get_time_range" /\ AllReadableNonEmpty) =>
        result = Return(<<Some(Min({TraceAt(p).starttime : p \in TracePositions})),
                          Some(Max({TraceAt(p).endtime : p \in TracePositions}))>>)

\* How often the trace t occurs in what load_data returned.
ReturnedCount(t) ==
    IF result.kind = "return" /\ result.value # None
    THEN Cardinality({k \in 1..Len(result.value[1]) : result.value[1][k] = t})
    ELSE 0

OverlappingPositions ==
    {p \in TracePositions : /\ TraceAt(p).starttime <= call.end_time
                            /\ TraceAt(p).endtime >= call.start_time}

\* C2: load_data returns a trace of a readable .mseed file if and only if
\* it starts no later than the window's end and ends no earlier than the
\* window's start, once per occurrence in the files.
C2_LoadDataExactlyOverlapping ==
    call.op = "load_data" =>
        \A t \in Traces :
            ReturnedCount(t) = Cardinality({p \in OverlappingPositions : TraceAt(p) = t})

\* A window that takes one trace of a file and leaves another out.
C2_Witness ==
    /\ call.op = "load_data"
    /\ call.start_time <= call.end_time
    /\ OverlappingPositions # {}
    /\ OverlappingPositions # TracePositions
    /\ result.kind = "return"
    /\ result.value # None

HasUnreadable == \E i \in 1..Len(listing) : IsUnreadable(listing[i])

\* C4 as stated: a read error on any .mseed file ends get_time_range and
\* get_dataset_files with an error and no result.
C4_ReadErrorIsFatal ==
    (call.op \in {"get_time_range", "get_dataset_files"} /\ HasUnreadable) =>
        result.kind = "raise"

\* The names of the readable .mseed files that hold at least one trace.
ListableFiles ==
    {i \in 1..Len(listing) : IsReadable(listing[i]) /\ Len(listing[i].traces) > 0}

\* C4 (amended): a read error on any .mseed file ends get_time_range with
\* an error and no result; get_dataset_files skips the file and returns one
\* entry for each of the other files.
C4_ReadErrorFatalToScanOnly ==
    /\ (call.op = "get_time_range" /\ HasUnreadable) => result.kind = "raise"
    /\ (call.op = "get_dataset_files" /\ exists) =>
          /\ result.kind = "return"
          /\ Len(result.value) = Cardinality(ListableFiles)
          /\ {result.value[k].filename : k \in 1..Len(result.value)} = ListableFiles

\* get_dataset_files has skipped an unreadable file listed beside a readable one.
C4_Witness ==
    /\ HasUnreadable
    /\ ListableFiles # {}
    /\ call.op = "get_dataset_files"
    /\ result.kind = "return"
    /\ Len(result.value) > 0

\* C5: over an existing directory load_data never raises on a read failure;
\* it keeps what it gathered from the files listed before the failing one,
\* returns None exactly when nothing was gathered from any file, and a
\* non-empty collection otherwise.
C5_LoadDataSkipsFailures ==
    (call.op = "load_data" /\ exists) =>
        /\ result.kind = "return"
        /\ (result.value = None) <=> (OverlappingPositions = {})
        /\ result.value # None => Len(result.value[1]) > 0
        /\ \A i \in 1..Len(listing) :
              IsUnreadable(listing[i]) =>
                  \A p \in OverlappingPositions :
                      p[1] < i => ReturnedCount(TraceAt(p)) > 0

\* A failing file listed after a file whose trace was gathered.
C5_Witness ==
    /\ call.op = "load_data"
    /\ result.kind = "return"
    /\ result.value # None
    /\ \E i \in 1..Len(listing) :
          /\ IsUnreadable(listing[i])
          /\ \E p \in OverlappingPositions : p[1] < i


----------------------------------------------------------------------------
(* Properties of the metadata indexer. *)

PassDone == call.op = "generate_metadata" /\ pc = "done" /\ result = Return(None)

\* The row the table is to hold for the trace at position p.
RowOfTrace(p) ==
    [dataset |-> DatasetName, filename |-> p[1],
     start_time |-> isoformat(TraceAt(p).starttime),
     end_time |-> isoformat(TraceAt(p).endtime),
     sampling_rate |-> TraceAt(p).sampling_rate]

\* How many rows of the table carry the file name n.
RowsOfFile(n) ==
    BagCardinality([r \in {x \in DOMAIN store : x.filename = n} |-> store[r]])

\* C3: after one generate_metadata pass whose inserts all succeeded the
\* table holds, for each readable file, one row per trace and, for each
\* unreadable file, no row, whatever other files the directory lists.
C3_OneRowPerTraceOfReadableFiles ==
    (PassDone /\ ~insertFailed) =>
        \A n \in 1..Len(listing) :
            RowsOfFile(n) = IF IsReadable(listing[n]) THEN Len(listing[n].traces) ELSE 0

\* A pass over an unreadable file and a readable file of several traces.
C3_Witness ==
    /\ PassDone /\ ~insertFailed
    /\ HasUnreadable
    /\ \E n \in 1..Len(listing) : IsReadable(listing[n]) /\ RowsOfFile(n) > 1

\* The table holds exactly the rows of the traces of the readable files.
StoreIsExpected ==
    /\ DOMAIN store \subseteq {RowOfTrace(p) : p \in TracePositions}
    /\ \A p \in TracePositions :
          CopiesIn(RowOfTrace(p), store) =
              Cardinality({q \in TracePositions : RowOfTrace(q) = RowOfTrace(p)})

\* C10: a step of a worker leaves the table alone; the table changes only by
\* the calling thread committing one row, and a connection is opened only
\* when none is open; whatever the order the workers ran and completed in,
\* a pass whose inserts succeeded ends with the same rows; and the pass ends
\* only when every submitted future has finished and been consumed.
C10_WorkersParseCallerWrites ==
    /\ [](conns \subseteq {"main"})
    /\ []((PassDone /\ ~insertFailed) => StoreIsExpected)
    /\ [](PassDone =>
            /\ DOMAIN futures = {n \in 1..Len(listing) : listing[n].mseed}
            /\ consumed = DOMAIN futures
            /\ \A n \in DOMAIN futures : futures[n].state = "finished")
    /\ [][/\ futures' # futures => store' = store
          /\ store' # store =>
                /\ pc = "commit" /\ conns = {"main"}
                /\ BagCardinality(store') = BagCardinality(store) + 1
          /\ (conns' # conns /\ conns' # {}) => conns = {}]_vars

\* A finished pass over two files that both gave rows.
C10_Witness ==
    /\ PassDone /\ ~insertFailed
    /\ Cardinality({r.filename : r \in DOMAIN store}) > 1
    /\ BagCardinality(store) > Cardinality(DOMAIN store)

\* The range the traces of the readable files span, whatever the number of
\* passes: the earliest start and the latest end, or (None, None).
RangeOfTraces ==
    IF TracePositions = {} THEN <<None, None>>
    ELSE <<Some(Min({TraceAt(p).starttime : p \in TracePositions})),
           Some(Max({TraceAt(p).endtime : p \in TracePositions}))>>

\* Every call of generate_metadata so far has returned and no insert raised.
PassesDone == pc = "done" /\ exists /\ ~insertFailed /\ passes >= 1

\* C11: rows are only ever added to the table; after k generate_metadata
\* passes that succeeded over an unchanged directory the table holds exactly
\* k rows for each trace of each readable file and no other row, and
\* get_dataset_timerange returns, after k passes as after one, the earliest
\* start and the latest end of those traces.
C11_ReindexingDuplicatesRows ==
    /\ [][\A r \in BagToSet(store) : CopiesIn(r, store') >= CopiesIn(r, store)]_vars
    /\ [](PassesDone =>
            /\ DOMAIN store \subseteq {RowOfTrace(p) : p \in TracePositions}
            /\ \A p \in TracePositions :
                  CopiesIn(RowOfTrace(p), store) =
                      passes * Cardinality({q \in TracePositions :
                                               RowOfTrace(q) = RowOfTrace(p)})
            /\ call.op = "get_dataset_timerange" =>
                  result = Return(RangeOfTraces))

\* The range is asked for after a second pass over two files whose traces
\* start and end at different times.
C11_Witness ==
    /\ PassesDone /\ passes >= 2
    /\ call.op = "get_dataset_timerange"
    /\ result.kind = "return" /\ result.value[1] # result.value[2]
    /\ Cardinality({r.filename : r \in DOMAIN store}) > 1
    /\ \E r \in DOMAIN store : r.start_time # isoformat(result.value[1][1])
    /\ \A r \in DOMAIN store : store[r] >= 2

----------------------------------------------------------------------------
(* Properties of the processing dispatcher and the event detector. *)

Called(op) == call.op = op /\ result # NoResult

NonEmptyStream(data) == data # None /\ Len(data[1].traces) > 0

AllSamplesZero(data) ==
    \A k \in 1..Len(data[1].traces) :
        \A i \in 1..Len(data[1].traces[k].data) : data[1].traces[k].data[i] = 0

\* C6: over a non-empty trace collection whose samples are all zero,
\* calculate_snr yields 0, and process_data reports snr_before = 0 and
\* improvement = 0.
C6_ZeroSignalSnrIsZero ==
    /\ (Called("calculate_snr") /\ NonEmptyStream(call.data) /\ AllSamplesZero(call.data))
          => result = Return(Zero)
    /\ (Called("process_data") /\ NonEmptyStream(call.data) /\ AllSamplesZero(call.data)
          /\ result.kind = "return")
          => result.value.snr_before = Zero /\ result.value.improvement = Zero

\* C7: over a non-empty trace collection, process_data with a method name
\* outside the four it knows raises ValueError and returns no metrics, and
\* detect_events with a method name other than sta_lta raises ValueError
\* and returns no events.
C7_UnknownMethodIsValueError ==
    /\ (Called("process_data") /\ NonEmptyStream(call.data)
          /\ call.method \notin get_denoising_methods)
          => result = Raise("ValueError")
    /\ (Called("detect_events") /\ call.method # "sta_lta")
          => result = Raise("ValueError")

\* process_data was called with the method wavelet over a stream of samples.
C7_Witness ==
    /\ Called("process_data")
    /\ call.method = "wavelet"
    /\ NonEmptyStream(call.data)
    /\ Len(call.data[1].traces[1].data) > 0
    /\ result.kind = "raise"

\* C8: the moving average of a trace of N samples has N samples for every
\* window_size >= 1, and with window_size = 1 its samples are the input's.
C8_MovingAverageKeepsLength ==
    (Called("process_data") /\ call.method = "moving_average" /\ result.kind = "return") =>
        LET in == call.data[1]
            out == result.processed_data
        IN /\ Len(out.traces) = Len(in.traces)
           /\ \A k \in 1..Len(in.traces) :
                 /\ Len(out.traces[k].data) = Len(in.traces[k].data)
                 /\ call.parameters["window_size"] = 1 =>
                       \A i \in 1..Len(in.traces[k].data) :
                           out.traces[k].data[i] * in.denom
                               = in.traces[k].data[i] * out.denom

----------------------------------------------------------------------------
(* Properties of the HTTP handlers. *)

Responded == result.kind = "response"

\* The dataset directory, or the file the request names, is not on disk.
PathMissing ==
    ~exists \/ (call.op = "get_mseed_data" /\ call.file > Len(listing))

BadWaveform(f) == ReadRaises(f) \/ Len(f.traces) = 0

\* A waveform file the request reads is unreadable or holds no trace.
WaveformMalformed ==
    /\ ~PathMissing
    /\ IF call.op = "get_mseed_data" THEN BadWaveform(listing[call.file])
       ELSE \E i \in 1..Len(listing) : listing[i].mseed /\ BadWaveform(listing[i])

\* The body carries the text of the exception.
CarriesDetails(body) ==
    "detail" \in DOMAIN body /\ body.detail.exc # None

\* C9: for the time-range, raw-file and per-file-listing endpoints a missing
\* dataset or file path answers 404, an unreadable or empty waveform file
\* answers 400, and a 500 answer carries no detail of the exception.
C9_ErrorStatusMapping ==
    Responded =>
        /\ PathMissing => result.status = 404
        /\ WaveformMalformed => result.status = 400
        /\ result.status = 500 => ~CarriesDetails(result.body)

----------------------------------------------------------------------------
(* Properties of the router. *)

Routed == call.op = "GET" /\ result # NoResult

\* C12: every request for /<dataset>/files is given to dataset_files and
\* every request for /print-file-dates/<dataset> to
\* print_file_dates_endpoint; neither is taken by the route
\* /{dataset}/{file} of get_mseed_data, which is registered before them.
C12_RoutesReachTheirHandlers ==
    (Routed /\ Len(call.path) = 2) =>
        /\ call.path[2] = "files" =>
              result = Return([endpoint |-> "dataset_files",
                               path_params |-> {<<"dataset", call.path[1]>>}])
        /\ (call.path[1] = "print-file-dates" /\ call.path[2] # "files") =>
              result = Return([endpoint |-> "print_file_dates_endpoint",
                               path_params |-> {<<"dataset", call.path[2]>>}])

====
